---- MODULE Spec2Model ----
(***************************************************************************)
(* A model of src/src/analysis.ts: the Analysis constructor (forest walk,  *)
(* package and element gathering, behavior resolution, merge-by-name and   *)
(* the lookup indices) and Analysis.validate.                              *)
(*                                                                         *)
(* Strings that the code inspects character by character (urls, package    *)
(* directories, schema versions) are tuples of one-character strings.      *)
(* Names that the code only compares (tag names, class names, item names)  *)
(* are TLA+ strings.  Descriptor objects are node identifiers, so that     *)
(* object identity is identifier equality.                                 *)
(***************************************************************************)
EXTENDS Integers, Sequences, FiniteSets, TLC

VARIABLES
  input,                \* the arguments of the operation under study
  pc,                   \* position of the running operation
  error,                \* the error thrown, kind "none" while none is
  wi,                   \* AnalysisWalker.walk: index of the next top-level document
  stack,                \* the activations of _walkDocumentDescriptor
  ancestors,            \* AnalysisWalker._ancestors
  log,                  \* history: every visitor callback issued so far
  packageDirs,          \* PackageGatherer.packageDirs (insertion ordered)
  elementDescriptors,   \* ElementGatherer.elementDescriptors
  elementPaths,         \* ElementGatherer.elementPaths
  behaviorDescriptors,  \* ElementGatherer.behaviorDescriptors
  behaviorPaths,        \* ElementGatherer.behaviorPaths
  behaviorsByIdentifierName,  \* Analysis._behaviorsByIdentifierName
  elementsByTagName,    \* Analysis._elementsByTagName
  elementsByPackageDir, \* Analysis._elementsByPackageDir
  documentsByLocalPath, \* Analysis._documentsByLocalPath
  ei,                   \* constructor: index of the next gathered element
  result                \* the value returned by a pure operation

vars == <<input, pc, error, wi, stack, ancestors, log, packageDirs,
          elementDescriptors, elementPaths, behaviorDescriptors, behaviorPaths,
          behaviorsByIdentifierName, elementsByTagName, elementsByPackageDir,
          documentsByLocalPath, ei, result>>

walkVars == <<wi, stack, ancestors, log, packageDirs, elementDescriptors,
              elementPaths, behaviorDescriptors, behaviorPaths>>

gatherVars == <<packageDirs, elementDescriptors, elementPaths,
                behaviorDescriptors, behaviorPaths>>

indexVars == <<behaviorsByIdentifierName, elementsByTagName,
               elementsByPackageDir, documentsByLocalPath, ei>>

----------------------------------------------------------------------------
(* Generic helpers *)

Range(s) == {s[i] : i \in 1..Len(s)}

RECURSIVE SeqsUpTo(_, _)
SeqsUpTo(S, n) ==
  IF n = 0 THEN {<<>>}
  ELSE LET shorter == SeqsUpTo(S, n - 1)
       IN shorter \cup {Append(s, x) : s \in {t \in shorter : Len(t) = n - 1}, x \in S}

EmptyMap == [x \in {} |-> x]

MapPut(m, k, v) == [x \in (DOMAIN m) \cup {k} |-> IF x = k THEN v ELSE m[x]]

\* JavaScript's undefined, for names and for urls
Undefined == "<undefined>"

----------------------------------------------------------------------------
(* Strings as character tuples: String.prototype.startsWith and the two     *)
(* functions of Node's posix path module that PackageGatherer calls.        *)

startsWith(s, prefix) ==
  /\ Len(prefix) <= Len(s)
  /\ \A i \in 1..Len(prefix) : s[i] = prefix[i]

\* index of the last character that is not a slash, 0 when there is none
LastNonSlash(s) ==
  LET idx == {i \in 1..Len(s) : s[i] # "/"}
  IN IF idx = {} THEN 0 ELSE CHOOSE i \in idx : \A j \in idx : j <= i

\* path.dirname
dirname(s) ==
  IF Len(s) = 0 THEN <<".">>
  ELSE LET hasRoot == s[1] = "/"
           last == LastNonSlash(s)
           cut == {i \in 2..Len(s) : s[i] = "/" /\ i < last}
           end == IF cut = {} THEN 0 ELSE CHOOSE i \in cut : \A j \in cut : j <= i
       IN IF end = 0 THEN (IF hasRoot THEN <<"/">> ELSE <<".">>)
          ELSE IF hasRoot /\ end = 2 THEN <<"/", "/">>
          ELSE SubSeq(s, 1, end - 1)

\* path.basename (one argument)
basename(s) ==
  LET last == LastNonSlash(s)
      cut == {i \in 1..Len(s) : s[i] = "/" /\ i < last}
      start == IF cut = {} THEN 0 ELSE CHOOSE i \in cut : \A j \in cut : j <= i
  IN SubSeq(s, start + 1, last)

PackageJson == <<"p", "a", "c", "k", "a", "g", "e", ".", "j", "s", "o", "n">>
BowerJson == <<"b", "o", "w", "e", "r", ".", "j", "s", "o", "n">>

packageFileNames == {PackageJson, BowerJson}

----------------------------------------------------------------------------
(* The descriptor model (imported from ./ast/ast and ./polymer): a node is  *)
(* a record holding the fields that analysis.ts reads.                      *)

NoUrl == <<>>

Node(kind) ==
  [kind |-> kind, url |-> NoUrl, isJson |-> FALSE, docUrl |-> NoUrl,
   entities |-> <<>>, dependencies |-> <<>>,
   tagName |-> Undefined, className |-> Undefined, isPolymer |-> FALSE,
   behaviors |-> <<>>, properties |-> <<>>, attributes |-> <<>>, events |-> <<>>]

\* an entry of a behaviors list: a symbolic name or a direct reference
Name(n) == [isName |-> TRUE, v |-> n]
Ref(b) == [isName |-> FALSE, v |-> b]

\* a named item (property, attribute or event); val tells the objects apart
Item(name, val) == [name |-> name, val |-> val, inheritedFrom |-> Undefined]

DocumentDescriptor(url, entities, dependencies) ==
  [Node("Document") EXCEPT !.url = url, !.docUrl = url,
                           !.entities = entities, !.dependencies = dependencies]

JsonDocumentDescriptor(url) ==
  [Node("Document") EXCEPT !.url = url, !.docUrl = url, !.isJson = TRUE]

PolymerElementDescriptor(tagName, behaviors, properties) ==
  [Node("Element") EXCEPT !.tagName = tagName, !.isPolymer = TRUE,
                          !.behaviors = behaviors, !.properties = properties]

BehaviorDescriptor(className, behaviors, properties) ==
  [Node("Behavior") EXCEPT !.className = className, !.isPolymer = TRUE,
                           !.behaviors = behaviors, !.properties = properties]

\* JavaScript truthiness of an optional name, and of a url
Truthy(s) == s # Undefined /\ s # ""
TruthyUrl(u) == Len(u) > 0

----------------------------------------------------------------------------
(* Errors: the kind of the Error thrown and what its message interpolates.  *)

NoError == [kind |-> "none", node |-> Undefined, name |-> Undefined,
            path1 |-> NoUrl, path2 |-> NoUrl]

\* `Unable to determine path to element: ${elementDescriptor}`
UnableToDeterminePath(node) == [NoError EXCEPT !.kind = "NoPath", !.node = node]

\* `Found element ${d} at distinct paths: ${path} and ${paths.get(d)}`
DistinctPaths(node, path, recorded) ==
  [NoError EXCEPT !.kind = "DistinctPaths", !.node = node,
                  !.path1 = path, !.path2 = recorded]

\* `Unknown kind of descriptor: ${util.inspect(entity)}`
UnknownDescriptor(node) == [NoError EXCEPT !.kind = "UnknownDescriptor", !.node = node]

\* `Unable to resolve behavior \`${behaviorName}\` Did you import it? ...`
UnresolvedBehavior(behaviorName) ==
  [NoError EXCEPT !.kind = "UnresolvedBehavior", !.name = behaviorName]

\* the RangeError of a recursion that does not end
StackOverflow == [NoError EXCEPT !.kind = "StackOverflow"]

----------------------------------------------------------------------------
(* mergeByName: byName is a Map, i.e. an insertion-ordered list of items    *)
(* with distinct names; set() on a present key replaces the value in place. *)

MapHas(byName, name) == \E i \in 1..Len(byName) : byName[i].name = name

MapSet(byName, item) ==
  IF MapHas(byName, item.name)
  THEN [i \in 1..Len(byName) |->
          IF byName[i].name = item.name THEN item ELSE byName[i]]
  ELSE Append(byName, item)

RECURSIVE SetAll(_, _, _)
SetAll(byName, base, i) ==
  IF i > Len(base) THEN byName
  ELSE SetAll(MapSet(byName, base[i]), base, i + 1)

MutInheritItem(byName, item, sourceName) ==
  MapSet(byName, [item EXCEPT !.inheritedFrom = sourceName])

\* lines 401-405: an item whose name is absent is copied and annotated
InheritItem(byName, item, sourceName) ==
  IF ~MapHas(byName, item.name)
  THEN MapSet(byName, [item EXCEPT !.inheritedFrom = sourceName])
  ELSE byName

RECURSIVE InheritVals(_, _, _, _)
InheritVals(byName, vals, sourceName, i) ==
  IF i > Len(vals) THEN byName
  ELSE InheritVals(InheritItem(byName, vals[i], sourceName), vals, sourceName, i + 1)

RECURSIVE InheritSources(_, _, _)
InheritSources(byName, inheritFrom, k) ==
  IF k > Len(inheritFrom) THEN byName
  ELSE InheritSources(
         InheritVals(byName, inheritFrom[k].vals, inheritFrom[k].name, 1),
         inheritFrom, k + 1)

mergeByName(base, inheritFrom) ==
  InheritSources(SetAll(<<>>, base, 1), inheritFrom, 1)

----------------------------------------------------------------------------
(* getFlattenedAndResolvedBehaviors.  resolvedBehaviors is a Set, i.e. an   *)
(* insertion-ordered list without repetition.  nodes gives each behavior    *)
(* object its behaviors list, byName is Analysis.getBehavior.               *)

getBehavior(byName, name) ==
  IF name \in DOMAIN byName THEN byName[name] ELSE Undefined

NoFlat == [resolved |-> <<>>, error |-> NoError]

MutAlreadyResolved(st, behavior) == FALSE

\* line 384: resolvedBehaviors.has(behavior)
AlreadyResolved(st, behavior) == behavior \in Range(st.resolved)

MutThrowUnresolved(st, behaviorName) == st

\* lines 378-382
ThrowUnresolved(st, behaviorName) ==
  [st EXCEPT !.error = UnresolvedBehavior(behaviorName)]

RECURSIVE FlattenFrom(_, _, _, _, _, _)
FlattenFrom(nodes, byName, toLookup, i, st, depth) ==
  IF st.error.kind # "none" \/ i > Len(toLookup) THEN st
  ELSE IF depth > Cardinality(DOMAIN nodes) + 1
  THEN [st EXCEPT !.error = StackOverflow]
  ELSE
    LET entry == toLookup[i]
        behavior == IF entry.isName THEN getBehavior(byName, entry.v) ELSE entry.v
    IN IF behavior = Undefined
       THEN FlattenFrom(nodes, byName, toLookup, i + 1,
                        ThrowUnresolved(st, entry.v), depth)
       ELSE IF AlreadyResolved(st, behavior)
       THEN FlattenFrom(nodes, byName, toLookup, i + 1, st, depth)
       ELSE FlattenFrom(nodes, byName, toLookup, i + 1,
              FlattenFrom(nodes, byName, nodes[behavior].behaviors, 1,
                          [st EXCEPT !.resolved = Append(@, behavior)], depth + 1),
              depth)

getFlattenedAndResolvedBehaviors(nodes, byName, behaviors) ==
  FlattenFrom(nodes, byName, behaviors, 1, NoFlat, 1)

----------------------------------------------------------------------------
(* resolveElement: the clone keeps the element's identity (id) and fields   *)
(* and replaces the three lists of named items.                             *)

Sources(nodes, behaviors, field) ==
  [k \in 1..Len(behaviors) |->
     [name |-> nodes[behaviors[k]].className,
      vals |-> IF field = "properties" THEN nodes[behaviors[k]].properties
               ELSE IF field = "attributes" THEN nodes[behaviors[k]].attributes
               ELSE nodes[behaviors[k]].events]]

resolveElement(nodes, byName, id) ==
  LET el == nodes[id]
      flat == IF el.isPolymer
              THEN getFlattenedAndResolvedBehaviors(nodes, byName, el.behaviors)
              ELSE NoFlat
  IN [error |-> flat.error,
      clone |-> [id |-> id, tagName |-> el.tagName,
                 properties |-> mergeByName(el.properties,
                                            Sources(nodes, flat.resolved, "properties")),
                 attributes |-> mergeByName(el.attributes,
                                            Sources(nodes, flat.resolved, "attributes")),
                 events |-> mergeByName(el.events,
                                        Sources(nodes, flat.resolved, "events"))]]

----------------------------------------------------------------------------
(* max, with the comparison the constructor passes to it.                   *)

\* (a, b) => a != null && a.length - b.length || -1 ; None stands for undefined
None == <<Undefined>>

MutLengthComparison(a, b) ==
  IF a # None /\ Len(b) - Len(a) # 0 THEN Len(b) - Len(a) ELSE -1

LengthComparison(a, b) ==
  IF a # None /\ Len(a) - Len(b) # 0 THEN Len(a) - Len(b) ELSE -1

RECURSIVE Reduce(_, _, _)
Reduce(arr, prev, i) ==
  IF i > Len(arr) THEN prev
  ELSE Reduce(arr, IF LengthComparison(prev, arr[i]) > 0 THEN prev ELSE arr[i], i + 1)

max(arr) == Reduce(arr, None, 1)

\* Array.prototype.filter
RECURSIVE Filter(_, _, _)
Filter(arr, path, i) ==
  IF i > Len(arr) THEN <<>>
  ELSE (IF startsWith(path, arr[i]) THEN <<arr[i]>> ELSE <<>>) \o Filter(arr, path, i + 1)

\* lines 70-76: max(...) || ''
longestMatchingPackageDir(dirs, elementPath) ==
  LET m == max(Filter(dirs, elementPath, 1))
  IN IF m = None \/ m = <<>> THEN <<>> ELSE m

----------------------------------------------------------------------------
(* The visitors.  A visitor is named by its class; Recorder is a visitor    *)
(* that implements every optional method of AnalysisVisitor and keeps no    *)
(* state.                                                                   *)

VisitorKinds == {"PackageGatherer", "ElementGatherer", "Recorder"}

Methods == {"visitDocumentDescriptor", "visitInlineDocumentDescriptor",
            "visitElement", "visitBehavior", "visitImportDescriptor", "done"}

\* the method-presence tests `if (visitor.visitX)` of the walker
VisitorHas(kind, method) ==
  CASE kind = "PackageGatherer" -> method = "visitDocumentDescriptor"
    [] kind = "ElementGatherer" -> method \in {"visitElement", "visitBehavior"}
    [] OTHER -> method \in Methods

\* the part of the state a visitor callback may change
Gathered(dirs, eds, eps, bds, bps, lg, err) ==
  [packageDirs |-> dirs, elementDescriptors |-> eds, elementPaths |-> eps,
   behaviorDescriptors |-> bds, behaviorPaths |-> bps, log |-> lg, error |-> err]

\* PackageGatherer.visitDocumentDescriptor
PackageGatherer_visitDocumentDescriptor(dd, g) ==
  IF dd.isJson /\ basename(dd.docUrl) \in packageFileNames
  THEN LET dir == dirname(dd.docUrl)
       IN IF dir \notin Range(g.packageDirs)
          THEN [g EXCEPT !.packageDirs = Append(@, dir)]
          ELSE g
  ELSE g

MutGetPathFromAncestors(nodes, anc) ==
  LET documentAncestors == {i \in 1..Len(anc) : TruthyUrl(nodes[anc[i]].url)}
  IN IF documentAncestors = {} THEN NoUrl
     ELSE nodes[anc[CHOOSE i \in documentAncestors :
                       \A j \in documentAncestors : i <= j]].url

\* ElementGatherer._getPathFromAncestors: every ancestor the walker pushes
\* is a DocumentDescriptor, so the filter keeps those with a truthy url
getPathFromAncestors(nodes, anc) ==
  LET documentAncestors == {i \in 1..Len(anc) :
                              nodes[anc[i]].kind = "Document" /\ TruthyUrl(nodes[anc[i]].url)}
  IN IF documentAncestors = {} THEN NoUrl
     ELSE nodes[anc[CHOOSE i \in documentAncestors :
                       \A j \in documentAncestors : j <= i]].url

MutHas(paths, id) == FALSE

\* lines 172 and 192: this.elementPaths.has(elementDescriptor)
Has(paths, id) == id \in DOMAIN paths

MutSamePath(recorded, path) == TRUE

\* lines 173 and 193: the recorded path against the path of this visit
SamePath(recorded, path) == recorded = path

\* ElementGatherer.visitElement
ElementGatherer_visitElement(nodes, id, anc, g) ==
  LET elementPath == getPathFromAncestors(nodes, anc)
  IN IF ~TruthyUrl(elementPath)
     THEN [g EXCEPT !.error = UnableToDeterminePath(id)]
     ELSE IF Has(g.elementPaths, id)
     THEN IF ~SamePath(g.elementPaths[id], elementPath)
          THEN [g EXCEPT !.error = DistinctPaths(id, elementPath, g.elementPaths[id])]
          ELSE g
     ELSE [g EXCEPT !.elementPaths = MapPut(@, id, elementPath),
                    !.elementDescriptors = Append(@, id)]

\* ElementGatherer.visitBehavior
ElementGatherer_visitBehavior(nodes, id, anc, g) ==
  LET path == getPathFromAncestors(nodes, anc)
  IN IF ~TruthyUrl(path)
     THEN [g EXCEPT !.error = UnableToDeterminePath(id)]
     ELSE IF Has(g.behaviorPaths, id)
     THEN IF ~SamePath(g.behaviorPaths[id], path)
          THEN [g EXCEPT !.error = DistinctPaths(id, path, g.behaviorPaths[id])]
          ELSE g
     ELSE [g EXCEPT !.behaviorPaths = MapPut(@, id, path),
                    !.behaviorDescriptors = Append(@, id)]

\* one callback of one visitor
Call(nodes, kind, method, id, anc, g) ==
  CASE kind = "PackageGatherer" /\ method = "visitDocumentDescriptor" ->
         PackageGatherer_visitDocumentDescriptor(nodes[id], g)
    [] kind = "ElementGatherer" /\ method = "visitElement" ->
         ElementGatherer_visitElement(nodes, id, anc, g)
    [] kind = "ElementGatherer" /\ method = "visitBehavior" ->
         ElementGatherer_visitBehavior(nodes, id, anc, g)
    [] OTHER -> g

LogEntry(v, method, id, anc, pos) ==
  [visitor |-> v, method |-> method, node |-> id, ancestors |-> anc, pos |-> pos]

\* `for (const visitor of visitors)`
NextVisitor(visitors, v) == v + 1

\* the loops `for (const visitor of visitors) if (visitor.m) visitor.m(node, ancestors)`;
\* a callback that throws ends the loop
RECURSIVE Broadcast(_, _, _, _, _, _, _, _)
Broadcast(nodes, visitors, method, id, anc, pos, v, g) ==
  IF v > Len(visitors) \/ g.error.kind # "none" THEN g
  ELSE IF VisitorHas(visitors[v], method)
  THEN Broadcast(nodes, visitors, method, id, anc, pos, NextVisitor(visitors, v),
         Call(nodes, visitors[v], method, id, anc,
              [g EXCEPT !.log = Append(@, LogEntry(v, method, id, anc, pos))]))
  ELSE Broadcast(nodes, visitors, method, id, anc, pos, NextVisitor(visitors, v), g)

----------------------------------------------------------------------------
(* AnalysisWalker.  The recursion of _walkDocumentDescriptor is the stack   *)
(* of its activations: dd is the document of the activation and i the      *)
(* index, in entities followed by dependencies, of the child being walked.  *)

Nodes == input.nodes
Descriptors == input.descriptors
Visitors == input.visitors

MutChildren(dd) == Nodes[dd].dependencies \o Nodes[dd].entities

\* the two loops of _walkDocumentDescriptor pass over entities, then dependencies
Children(dd) == Nodes[dd].entities \o Nodes[dd].dependencies

Top == stack[Len(stack)]
Advanced == [stack EXCEPT ![Len(stack)].i = @ + 1]
Position(w, stk) == <<w>> \o [k \in 1..Len(stk) |-> stk[k].i]

CurrentGathered ==
  Gathered(packageDirs, elementDescriptors, elementPaths,
           behaviorDescriptors, behaviorPaths, log, error)

\* the state after the callbacks of one node; a throw unwinds the walk
Visited(g, stk, anc) ==
  /\ packageDirs' = g.packageDirs
  /\ elementDescriptors' = g.elementDescriptors
  /\ elementPaths' = g.elementPaths
  /\ behaviorDescriptors' = g.behaviorDescriptors
  /\ behaviorPaths' = g.behaviorPaths
  /\ log' = g.log
  /\ error' = g.error
  /\ ancestors' = anc
  /\ IF g.error.kind = "none"
     THEN pc' = pc /\ stack' = stk
     ELSE pc' = "failed" /\ stack' = <<>>

\* this._ancestors.push(dd)
Push(anc, dd) == Append(anc, dd)

\* this._ancestors.pop()
Pop(anc) == SubSeq(anc, 1, Len(anc) - 1)

\* _walkDocumentDescriptor up to its first loop over the children
walkDocumentDescriptor(dd, w, stk) ==
  LET anc == Push(ancestors, dd)
  IN Visited(Broadcast(Nodes, Visitors, "visitDocumentDescriptor", dd, anc,
                       Position(w, stk), 1, CurrentGathered),
             Append(stk, [dd |-> dd, i |-> 0]), anc)

\* walk: the next top-level document
WalkTopDocument ==
  /\ pc = "walk" /\ stack = <<>> /\ wi < Len(Descriptors)
  /\ wi' = wi + 1
  /\ walkDocumentDescriptor(Descriptors[wi + 1], wi + 1, <<>>)
  /\ UNCHANGED <<input, indexVars, result>>

HasNextChild == pc = "walk" /\ stack # <<>> /\ Top.i < Len(Children(Top.dd))
NextChild == Children(Top.dd)[Top.i + 1]

\* _walkEntity: entity instanceof DocumentDescriptor
WalkNestedDocument ==
  /\ HasNextChild /\ Nodes[NextChild].kind = "Document"
  /\ walkDocumentDescriptor(NextChild, wi, Advanced)
  /\ UNCHANGED <<input, wi, indexVars, result>>

\* the callbacks of one leaf node
VisitLeaf(method) ==
  Visited(Broadcast(Nodes, Visitors, method, NextChild, ancestors,
                    Position(wi, Advanced), 1, CurrentGathered),
          Advanced, ancestors)

\* _walkEntity: entity instanceof InlineDocumentDescriptor
WalkInlineDocumentDescriptor ==
  /\ HasNextChild /\ Nodes[NextChild].kind = "InlineDocument"
  /\ VisitLeaf("visitInlineDocumentDescriptor")
  /\ UNCHANGED <<input, wi, indexVars, result>>

\* _walkEntity: entity instanceof BehaviorDescriptor
WalkBehavior ==
  /\ HasNextChild /\ Nodes[NextChild].kind = "Behavior"
  /\ VisitLeaf("visitBehavior")
  /\ UNCHANGED <<input, wi, indexVars, result>>

\* _walkEntity: entity instanceof ElementDescriptor
WalkElement ==
  /\ HasNextChild /\ Nodes[NextChild].kind = "Element"
  /\ VisitLeaf("visitElement")
  /\ UNCHANGED <<input, wi, indexVars, result>>

\* _walkEntity: entity instanceof ImportDescriptor
WalkImportDescriptor ==
  /\ HasNextChild /\ Nodes[NextChild].kind = "Import"
  /\ VisitLeaf("visitImportDescriptor")
  /\ UNCHANGED <<input, wi, indexVars, result>>

\* _walkEntity: entity == null
WalkNullEntity ==
  /\ HasNextChild /\ Nodes[NextChild].kind = "Null"
  /\ stack' = Advanced
  /\ UNCHANGED <<input, pc, error, wi, ancestors, log, gatherVars, indexVars, result>>

\* _walkEntity: no instanceof test matches
WalkUnknownEntity ==
  /\ HasNextChild /\ Nodes[NextChild].kind = "Unknown"
  /\ error' = UnknownDescriptor(NextChild)
  /\ pc' = "failed" /\ stack' = <<>>
  /\ UNCHANGED <<input, wi, ancestors, log, gatherVars, indexVars, result>>

\* the end of _walkDocumentDescriptor
WalkLeaveDocument ==
  /\ pc = "walk" /\ stack # <<>> /\ Top.i = Len(Children(Top.dd))
  /\ ancestors' = Pop(ancestors)
  /\ stack' = SubSeq(stack, 1, Len(stack) - 1)
  /\ UNCHANGED <<input, pc, error, wi, log, gatherVars, indexVars, result>>

\* walk: the loop over visitor.done after the last document
WalkDone ==
  /\ pc = "walk" /\ stack = <<>> /\ wi = Len(Descriptors)
  /\ LET g == Broadcast(Nodes, Visitors, "done", Undefined, <<>>, <<>>, 1,
                        CurrentGathered)
     IN log' = g.log
  /\ pc' = "walked"
  /\ UNCHANGED <<input, error, wi, stack, ancestors, gatherVars, indexVars, result>>

Walk ==
  \/ WalkTopDocument
  \/ WalkNestedDocument
  \/ WalkInlineDocumentDescriptor
  \/ WalkBehavior
  \/ WalkElement
  \/ WalkImportDescriptor
  \/ WalkNullEntity
  \/ WalkUnknownEntity
  \/ WalkLeaveDocument
  \/ WalkDone

----------------------------------------------------------------------------
(* The Analysis constructor after the walk.                                 *)

\* lines 57-61
RECURSIVE IndexBehaviorsFrom(_, _, _)
IndexBehaviorsFrom(byName, behaviors, i) ==
  IF i > Len(behaviors) THEN byName
  ELSE IndexBehaviorsFrom(
         IF Truthy(Nodes[behaviors[i]].className)
         THEN MapPut(byName, Nodes[behaviors[i]].className, behaviors[i])
         ELSE byName,
         behaviors, i + 1)

IndexBehaviors ==
  /\ pc = "walked"
  /\ behaviorsByIdentifierName' = IndexBehaviorsFrom(EmptyMap, behaviorDescriptors, 1)
  /\ pc' = "indexElements"
  /\ UNCHANGED <<input, error, walkVars, elementsByTagName, elementsByPackageDir,
                 documentsByLocalPath, ei, result>>

MutSetTagName(byTag, element) ==
  IF Truthy(element.tagName) /\ element.tagName \notin DOMAIN byTag
  THEN MapPut(byTag, element.tagName, element)
  ELSE byTag

\* lines 66-68
SetTagName(byTag, element) ==
  IF Truthy(element.tagName) THEN MapPut(byTag, element.tagName, element) ELSE byTag

\* lines 78-82
PushToPackage(byDir, dir, element) ==
  MapPut(byDir, dir, Append(IF dir \in DOMAIN byDir THEN byDir[dir] ELSE <<>>, element))

\* one pass of the loop of lines 64-83
IndexElement ==
  /\ pc = "indexElements" /\ ei < Len(elementDescriptors)
  /\ LET originalElement == elementDescriptors[ei + 1]
         r == resolveElement(Nodes, behaviorsByIdentifierName, originalElement)
     IN IF r.error.kind # "none"
        THEN /\ error' = r.error
             /\ pc' = "failed"
             /\ UNCHANGED <<elementsByTagName, elementsByPackageDir, ei>>
        ELSE /\ elementsByTagName' = SetTagName(elementsByTagName, r.clone)
             /\ elementsByPackageDir' =
                  PushToPackage(elementsByPackageDir,
                                longestMatchingPackageDir(packageDirs,
                                                          elementPaths[originalElement]),
                                r.clone)
             /\ ei' = ei + 1
             /\ UNCHANGED <<pc, error>>
  /\ UNCHANGED <<input, walkVars, behaviorsByIdentifierName, documentsByLocalPath, result>>

\* lines 85-87
RECURSIVE IndexDocumentsFrom(_, _)
IndexDocumentsFrom(byPath, i) ==
  IF i > Len(Descriptors) THEN byPath
  ELSE IndexDocumentsFrom(MapPut(byPath, Nodes[Descriptors[i]].url, Descriptors[i]), i + 1)

IndexDocuments ==
  /\ pc = "indexElements" /\ ei = Len(elementDescriptors)
  /\ documentsByLocalPath' = IndexDocumentsFrom(EmptyMap, 1)
  /\ pc' = "done"
  /\ UNCHANGED <<input, error, walkVars, behaviorsByIdentifierName, elementsByTagName,
                 elementsByPackageDir, ei, result>>

\* Analysis.getElement and Analysis.getElementsForPackage
getElement(tag) ==
  IF tag \in DOMAIN elementsByTagName THEN elementsByTagName[tag] ELSE Undefined

getElementsForPackage(dirName) ==
  IF dirName \in DOMAIN elementsByPackageDir THEN elementsByPackageDir[dirName] ELSE Undefined

----------------------------------------------------------------------------
(* The descriptor forests the constructor is run on.                        *)

DirA == <<"/", "a">>
DirAB == <<"/", "a", "/", "b">>
DirD == <<"/", "d">>
UrlABC == DirAB \o <<"/", "c", ".", "h", "t", "m", "l">>
UrlABhtml == DirAB \o <<".", "h", "t", "m", "l">>
UrlAX == DirA \o <<"/", "x", ".", "h", "t", "m", "l">>
UrlDY == DirD \o <<"/", "y", ".", "h", "t", "m", "l">>
UrlAPackage == DirA \o <<"/">> \o PackageJson
UrlABBower == DirAB \o <<"/">> \o BowerJson
UrlABData == DirAB \o <<"/", "d", ".", "j", "s", "o", "n">>
UrlBower == BowerJson

NodeIds == {"J1", "J2", "D1", "D2", "D3", "E1", "E2", "B1", "B2", "B3",
            "N1", "M1", "U1", "NULL"}

BaseNodes ==
  [n \in NodeIds |->
     CASE n = "J1" -> JsonDocumentDescriptor(UrlAPackage)
       [] n = "J2" -> JsonDocumentDescriptor(UrlABBower)
       [] n = "D1" -> DocumentDescriptor(UrlABC, <<"E1">>, <<>>)
       [] n = "D2" -> DocumentDescriptor(UrlAX, <<"B1", "B2">>, <<>>)
       [] n = "D3" -> DocumentDescriptor(NoUrl, <<>>, <<>>)
       [] n = "E1" -> PolymerElementDescriptor("x-a", <<Name("N1")>>, <<Item("p", "E1.p")>>)
       [] n = "E2" -> PolymerElementDescriptor("x-b", <<>>, <<Item("q", "E2.q")>>)
       [] n = "B1" -> BehaviorDescriptor("N1", <<>>, <<Item("p", "B1.p"), Item("q", "B1.q")>>)
       [] n = "B2" -> BehaviorDescriptor("N2", <<>>, <<Item("q", "B2.q"), Item("r", "B2.r")>>)
       [] n = "B3" -> BehaviorDescriptor(Undefined, <<>>, <<Item("r", "B3.r")>>)
       [] n = "N1" -> Node("InlineDocument")
       [] n = "M1" -> [Node("Import") EXCEPT !.url = UrlAX]
       [] n = "U1" -> Node("Unknown")
       [] n = "NULL" -> Node("Null")]

Gatherers == <<"PackageGatherer", "ElementGatherer">>

Forest(descriptors, nodes) ==
  [descriptors |-> descriptors, nodes |-> nodes, visitors |-> Gatherers]

\* the longest entities list of the enumerated documents
MaxEntities == 2

\* a forest that varies the shape of the walk: nesting, sharing, urls
ShapeForest(u1, u3, e1, d1, e3, e2) ==
  Forest(<<"J1", "D1", "D2">>,
         [BaseNodes EXCEPT !["D1"].url = u1, !["D1"].entities = e1,
                           !["D1"].dependencies = d1,
                           !["D3"].url = u3, !["D3"].entities = e3,
                           !["D2"].entities = e2])

\* a forest that varies the package manifests and the urls of the elements
ManifestDocuments ==
  {JsonDocumentDescriptor(UrlAPackage), JsonDocumentDescriptor(UrlABBower),
   JsonDocumentDescriptor(UrlABData), JsonDocumentDescriptor(UrlBower),
   DocumentDescriptor(UrlAPackage, <<>>, <<>>)}

PackageForest(j1, j2, u1, u2) ==
  Forest(<<"J1", "D1", "J2", "D2">>,
         [BaseNodes EXCEPT !["J1"] = j1, !["J2"] = j2,
                           !["D1"].url = u1, !["D1"].entities = <<"E1", "B1">>,
                           !["D2"].url = u2, !["D2"].entities = <<"E2">>])

\* the longest behaviors list of the enumerated elements
MaxBehaviorsList == 2

\* a forest that varies tag names, class names and behaviors lists; E2 is a
\* PolymerElementDescriptor, with a behaviors list, or a plain ElementDescriptor
BehaviorForest(e2, t1, t2, l1, poly, lb1, lb2, c2) ==
  Forest(<<"D1", "D2">>,
         [BaseNodes EXCEPT !["D1"].entities = <<"E1", "E2">>,
                           !["D2"].entities = e2,
                           !["E1"].tagName = t1, !["E2"].tagName = t2,
                           !["E1"].behaviors = l1,
                           !["E2"].isPolymer = poly,
                           !["E2"].behaviors = IF poly THEN <<Name("N2")>> ELSE <<>>,
                           !["B1"].behaviors = lb1,
                           !["B2"].behaviors = lb2, !["B2"].className = c2])

InitState(in, start) ==
  /\ input = in
  /\ pc = start
  /\ error = NoError
  /\ wi = 0
  /\ stack = <<>>
  /\ ancestors = <<>>
  /\ log = <<>>
  /\ packageDirs = <<>>
  /\ elementDescriptors = <<>>
  /\ elementPaths = EmptyMap
  /\ behaviorDescriptors = <<>>
  /\ behaviorPaths = EmptyMap
  /\ behaviorsByIdentifierName = EmptyMap
  /\ elementsByTagName = EmptyMap
  /\ elementsByPackageDir = EmptyMap
  /\ documentsByLocalPath = EmptyMap
  /\ ei = 0
  /\ result = Undefined

TagNames == {<<"x-a", "x-a">>, <<"x-a", "x-b">>, <<"x-a", "">>, <<Undefined, "x-b">>}

\* new Analysis(descriptors)
Init ==
  \/ \E u1 \in {UrlABC, NoUrl}, u3 \in {NoUrl, UrlAX},
        e1 \in SeqsUpTo({"E1", "E2", "B1", "D3", "N1", "NULL"}, MaxEntities),
        d1 \in {<<>>, <<"M1", "D3">>, <<"U1">>},
        e3 \in {<<>>, <<"E1">>, <<"B1", "E1">>},
        e2 \in {<<"B1">>, <<"E2", "E1">>} :
       InitState(ShapeForest(u1, u3, e1, d1, e3, e2), "walk")
  \/ \E j1 \in ManifestDocuments, j2 \in ManifestDocuments,
        u1 \in {UrlABC, UrlABhtml, UrlDY}, u2 \in {UrlAX, UrlABC} :
       InitState(PackageForest(j1, j2, u1, u2), "walk")
  \/ \E e2 \in {<<"B1", "B2", "B3">>, <<"B2", "B1">>, <<"B2">>},
        t \in TagNames,
        l1 \in SeqsUpTo({Name("N1"), Name("N2"), Name("Foo"), Ref("B3")}, MaxBehaviorsList),
        poly \in BOOLEAN,
        lb1 \in {<<>>, <<Name("N2"), Ref("B3")>>, <<Name("Foo")>>},
        b2 \in {<<<<>>, "N2">>, <<<<Name("N1")>>, "N2">>, <<<<>>, "N1">>} :
       InitState(BehaviorForest(e2, t[1], t[2], l1, poly, lb1, b2[1], b2[2]), "walk")

Next == Walk \/ IndexBehaviors \/ IndexElement \/ IndexDocuments

Spec == Init /\ [][Next]_vars

----------------------------------------------------------------------------
(* AnalysisWalker.walk on its own, with any visitors.                       *)

VisitorLists ==
  {<<"Recorder", "ElementGatherer">>, <<"PackageGatherer", "Recorder">>,
   <<"Recorder", "Recorder">>}

InitWalk ==
  \E e1 \in SeqsUpTo({"E1", "E2", "B1", "D3", "N1", "NULL"}, MaxEntities),
     d1 \in {<<>>, <<"M1", "D3">>, <<"U1">>},
     e3 \in {<<>>, <<"B1", "E1">>},
     vs \in VisitorLists :
    InitState([ShapeForest(UrlABC, NoUrl, e1, d1, e3, <<"E2">>) EXCEPT !.visitors = vs],
              "walk")

SpecWalk == InitWalk /\ [][Walk]_vars

----------------------------------------------------------------------------
(* getFlattenedAndResolvedBehaviors on its own: behavior graphs over three  *)
(* behavior objects, of which B1 is registered under the name N1.           *)

\* the longest behaviors list of the element, and the number of entries of
\* the behaviors lists of the three behaviors taken together
MaxList == 2
MaxEdges == 3

BehaviorGraph(l1, l2, l3) ==
  [b \in {"B1", "B2", "B3"} |->
     BehaviorDescriptor(IF b = "B1" THEN "N1" ELSE Undefined,
                        IF b = "B1" THEN l1 ELSE IF b = "B2" THEN l2 ELSE l3,
                        <<>>)]

InitFlatten ==
  \E l1 \in SeqsUpTo({Ref("B1"), Ref("B2"), Ref("B3"), Name("Foo")}, MaxEdges),
     l2 \in SeqsUpTo({Ref("B1"), Ref("B2"), Ref("B3"), Name("Foo")}, MaxEdges),
     l3 \in SeqsUpTo({Ref("B1"), Ref("B2"), Ref("B3"), Name("Foo")}, MaxEdges) :
    /\ Len(l1) + Len(l2) + Len(l3) <= MaxEdges
    /\ \E behaviors \in SeqsUpTo({Ref("B2"), Ref("B3"), Name("N1")}, MaxList) :
         InitState([nodes |-> BehaviorGraph(l1, l2, l3),
                    byName |-> [n \in {"N1"} |-> "B1"],
                    behaviors |-> behaviors], "call")

FlattenCall ==
  /\ pc = "call"
  /\ result' = getFlattenedAndResolvedBehaviors(input.nodes, input.byName, input.behaviors)
  /\ pc' = IF result'.error.kind = "none" THEN "returned" ELSE "threw"
  /\ UNCHANGED <<input, error, walkVars, indexVars>>

SpecFlatten == InitFlatten /\ [][FlattenCall]_vars

----------------------------------------------------------------------------
(* mergeByName on its own.  Every item is a distinct object: its val is     *)
(* <<k, i>> for item i of source k, source 0 being the base.                *)

MaxItems == 2
MaxSources == 2

ItemNames == {"p", "q"}

Items(names, k) == [i \in 1..Len(names) |-> Item(names[i], <<k, i>>)]

NoRepeatedName(items) ==
  \A i, j \in 1..Len(items) : items[i].name = items[j].name => i = j

\* src[k] = <<name of source k, names of its items>>
SourcesOf(src) == [k \in 1..Len(src) |-> [name |-> src[k][1], vals |-> Items(src[k][2], k)]]

InitMerge ==
  \E base \in {l \in SeqsUpTo(ItemNames, MaxItems) : \A i, j \in 1..Len(l) : l[i] = l[j] => i = j},
     src \in SeqsUpTo({"B2", "B3"} \X SeqsUpTo(ItemNames, MaxItems), MaxSources) :
    InitState([base |-> Items(base, 0), inheritFrom |-> SourcesOf(src)], "call")

MergeCall ==
  /\ pc = "call"
  /\ result' = mergeByName(input.base, input.inheritFrom)
  /\ pc' = "returned"
  /\ UNCHANGED <<input, error, walkVars, indexVars>>

SpecMerge == InitMerge /\ [][MergeCall]_vars

----------------------------------------------------------------------------
(* Analysis.validate.  The object is seen through what validate reads: the  *)
(* errors the schema validator reports for it and its schema_version.       *)
(* validator.validate is called without options, so result.throwError is    *)
(* never set.                                                               *)

MaxErrors == 2
MaxVersionLength == 5

IsDigit(c) == c \in {"0", "1", "2", "3", "4", "5", "6", "7", "8", "9"}

\* /^1\.\d+\.\d+$/.test(version)
MatchesVersion1(version) ==
  /\ Len(version) >= 5
  /\ version[1] = "1" /\ version[2] = "."
  /\ \E dot \in 4..(Len(version) - 1) :
       /\ version[dot] = "."
       /\ \A i \in 3..(dot - 1) : IsDigit(version[i])
       /\ \A i \in (dot + 1)..Len(version) : IsDigit(version[i])

Returned == [threw |-> "none", errors |-> <<>>, expected |-> <<>>, got |-> <<>>,
             versionReported |-> FALSE]

\* new ValidationError(result): the message lists every err.message
ValidationError(errors) ==
  [Returned EXCEPT !.threw = "ValidationError", !.errors = errors]

\* `Invalid schema_version in AnalyzedPackage. Expected 1.x.x, got ${schema_version}`
InvalidSchemaVersion(version) ==
  [Returned EXCEPT !.threw = "Error", !.expected = <<"1", ".", "x", ".", "x">>,
                   !.got = version, !.versionReported = TRUE]

MutHasErrors(errors) == FALSE

\* line 130
HasErrors(errors) == Len(errors) > 0

validate(errors, version) ==
  IF HasErrors(errors) THEN ValidationError(errors)
  ELSE IF ~MatchesVersion1(version) THEN InvalidSchemaVersion(version)
  ELSE Returned

InitValidate ==
  \E errors \in SeqsUpTo({"e1", "e2"}, MaxErrors),
     version \in SeqsUpTo({"1", "2", ".", "x"}, MaxVersionLength) :
    InitState([errors |-> errors, schema_version |-> version], "call")

ValidateCall ==
  /\ pc = "call"
  /\ result' = validate(input.errors, input.schema_version)
  /\ pc' = IF result'.threw = "none" THEN "returned" ELSE "threw"
  /\ UNCHANGED <<input, error, walkVars, indexVars>>

SpecValidate == InitValidate /\ [][ValidateCall]_vars

----------------------------------------------------------------------------
(* Properties of getFlattenedAndResolvedBehaviors (SpecFlatten).            *)

NoDuplicates(seq) == \A i, j \in 1..Len(seq) : seq[i] = seq[j] => i = j

\* the behavior object an entry of a behaviors list stands for
Target(entry) ==
  IF entry.isName
  THEN (IF entry.v \in DOMAIN input.byName THEN input.byName[entry.v] ELSE Undefined)
  ELSE entry.v

Targets(list) == {Target(list[i]) : i \in 1..Len(list)}

\* the behavior objects reachable from a behaviors list
RECURSIVE ReachableClosure(_)
ReachableClosure(S) ==
  LET T == S \cup UNION {Targets(input.nodes[b].behaviors) : b \in S}
  IN IF T = S THEN S ELSE ReachableClosure(T)

Reachable(list) == ReachableClosure(Targets(list))

HasUnvisited(list, out) == \E i \in 1..Len(list) : Target(list[i]) \notin Range(out)

FirstUnvisited(list, out) ==
  Target(list[CHOOSE i \in 1..Len(list) :
                /\ Target(list[i]) \notin Range(out)
                /\ \A j \in 1..(i - 1) : Target(list[j]) \in Range(out)])

\* depth-first preorder, one discovery at a time: the next behavior found is
\* the first unvisited entry of the most recently found behavior that still
\* has one, and otherwise the first unvisited entry of the root list
RECURSIVE DepthFirstPreorder(_, _)
DepthFirstPreorder(list, out) ==
  LET open == {k \in 1..Len(out) : HasUnvisited(input.nodes[out[k]].behaviors, out)}
  IN IF open # {}
     THEN LET k == CHOOSE k \in open : \A m \in open : m <= k
          IN DepthFirstPreorder(list,
               Append(out, FirstUnvisited(input.nodes[out[k]].behaviors, out)))
     ELSE IF HasUnvisited(list, out)
     THEN DepthFirstPreorder(list, Append(out, FirstUnvisited(list, out)))
     ELSE out

\* C1: flattening ends, without exhausting the stack, on every behavior graph;
\* when it returns, its result is the depth-first preorder from the element's
\* list, holding every reachable behavior object exactly once
C1_FlattenIsPreorder ==
  pc # "call" =>
    /\ result.error.kind \in {"none", "UnresolvedBehavior"}
    /\ pc = "returned" =>
         /\ result.resolved = DepthFirstPreorder(input.behaviors, <<>>)
         /\ NoDuplicates(result.resolved)
         /\ Range(result.resolved) = Reachable(input.behaviors)

\* the diamond of the claim, closed into a cycle: [B2, B3], B2 -> [B3], B3 -> [B2]
C1_Witness ==
  /\ pc = "returned"
  /\ input.behaviors = <<Ref("B2"), Ref("B3")>>
  /\ input.nodes["B2"].behaviors = <<Ref("B3")>>
  /\ input.nodes["B3"].behaviors = <<Ref("B2")>>
  /\ result.resolved = <<"B2", "B3">>

----------------------------------------------------------------------------
(* Properties of mergeByName (SpecMerge).                                   *)

Defines(source, name) == \E i \in 1..Len(source.vals) : source.vals[i].name = name

\* the first source, in resolution order, that defines the name; 0 when none does
FirstSource(name) ==
  LET defining == {k \in 1..Len(input.inheritFrom) : Defines(input.inheritFrom[k], name)}
  IN IF defining = {} THEN 0 ELSE CHOOSE k \in defining : \A m \in defining : k <= m

BaseNames == {input.base[i].name : i \in 1..Len(input.base)}

\* C2: the merged list repeats no name, begins with the base items unchanged,
\* and continues with one item for each name the base lacks and a source
\* defines: an item of the first source defining it, annotated with that
\* source's name
C2_MergeByName ==
  pc = "returned" =>
    /\ NoRepeatedName(result)
    /\ Len(result) >= Len(input.base)
    /\ SubSeq(result, 1, Len(input.base)) = input.base
    /\ \A i \in (Len(input.base) + 1)..Len(result) :
         LET k == FirstSource(result[i].name)
         IN /\ result[i].name \notin BaseNames
            /\ k # 0
            /\ result[i].inheritedFrom = input.inheritFrom[k].name
            /\ \E j \in 1..Len(input.inheritFrom[k].vals) :
                 result[i] = [input.inheritFrom[k].vals[j] EXCEPT
                                !.inheritedFrom = input.inheritFrom[k].name]
    /\ \A name \in ItemNames :
         (name \notin BaseNames /\ FirstSource(name) # 0)
           => \E i \in 1..Len(result) : result[i].name = name

\* base defines p; B3 then B2 both define q and p: q comes from B3, p stays
C2_Witness ==
  /\ pc = "returned"
  /\ Len(input.base) = 1 /\ input.base[1].name = "p"
  /\ Len(input.inheritFrom) = 2
  /\ input.inheritFrom[1].name = "B3" /\ input.inheritFrom[2].name = "B2"
  /\ Defines(input.inheritFrom[1], "q") /\ Defines(input.inheritFrom[2], "q")
  /\ Defines(input.inheritFrom[1], "p")
  /\ Len(result) = 2
  /\ result[1] = input.base[1]
  /\ result[2].name = "q" /\ result[2].inheritedFrom = "B3"

----------------------------------------------------------------------------
(* Properties of Analysis.validate (SpecValidate).                          *)

\* a version of the form 1.x.x: a 1, a dot, digits, a dot, digits
IsVersion1(version) ==
  LET dots == {i \in 1..Len(version) : version[i] = "."}
  IN /\ Cardinality(dots) = 2
     /\ 2 \in dots
     /\ Len(version) \notin dots
     /\ 3 \notin dots
     /\ version[1] = "1"
     /\ \A i \in (1..Len(version)) \ dots : IsDigit(version[i])

Fails == result.threw # "none"

----------------------------------------------------------------------------
(* Properties of the walk and of ElementGatherer (Spec).  An occurrence of  *)
(* a node in the forest is the path of list indices leading to it: the      *)
(* index of a top-level document, then an index into each enclosing         *)
(* document's entities followed by its dependencies.                        *)

ChildAt(dd, i) ==
  IF i <= Len(Nodes[dd].entities) THEN Nodes[dd].entities[i]
  ELSE Nodes[dd].dependencies[i - Len(Nodes[dd].entities)]

RECURSIVE NodeAt(_)
NodeAt(pos) ==
  IF Len(pos) = 1 THEN Descriptors[pos[1]]
  ELSE ChildAt(NodeAt(SubSeq(pos, 1, Len(pos) - 1)), pos[Len(pos)])

\* the documents that enclose an occurrence, outermost first
EnclosingDocuments(pos) == [k \in 1..(Len(pos) - 1) |-> NodeAt(SubSeq(pos, 1, k))]

\* the url of the innermost of the first k documents of a chain that has one
RECURSIVE NearestUrl(_, _)
NearestUrl(chain, k) ==
  IF k = 0 THEN NoUrl
  ELSE IF Nodes[chain[k]].url # NoUrl THEN Nodes[chain[k]].url
  ELSE NearestUrl(chain, k - 1)

OwningPath(pos) == NearestUrl(EnclosingDocuments(pos), Len(pos) - 1)

\* the visits of elements and behaviors handed to the ElementGatherer
GathererVisits ==
  {i \in 1..Len(log) : /\ log[i].method \in {"visitElement", "visitBehavior"}
                       /\ Visitors[log[i].visitor] = "ElementGatherer"}

RecordedPaths(method) == IF method = "visitElement" THEN elementPaths ELSE behaviorPaths
Recorded(method) == IF method = "visitElement" THEN elementDescriptors ELSE behaviorDescriptors

\* C5: at every visit of an element or behavior the ancestors handed over are
\* the documents enclosing that occurrence, outermost first; the path recorded
\* for the descriptor is the url of the innermost of them that has one, and a
\* visit with no such document fails the construction
C5_OwningPath ==
  \A i \in GathererVisits :
    LET e == log[i]
        path == OwningPath(e.pos)
    IN /\ NodeAt(e.pos) = e.node
       /\ e.ancestors = EnclosingDocuments(e.pos)
       /\ IF path = NoUrl
          THEN /\ pc = "failed" /\ i = Len(log)
               /\ error = UnableToDeterminePath(e.node)
          ELSE /\ e.node \in DOMAIN RecordedPaths(e.method)
               /\ \/ RecordedPaths(e.method)[e.node] = path
                  \/ pc = "failed" /\ i = Len(log) /\ error.kind = "DistinctPaths"
       /\ \A node \in DOMAIN RecordedPaths(e.method) :
            RecordedPaths(e.method)[node] # NoUrl
       /\ pc = "done" => path # NoUrl

\* E1 occurs in D3, which has no url, inside D1: its path is D1's url although
\* the walk later passes documents with other urls
C5_Witness ==
  /\ pc = "done"
  /\ \E i \in GathererVisits :
       /\ log[i].node = "E1"
       /\ log[i].ancestors = <<"D1", "D3">>
       /\ Nodes["D3"].url = NoUrl
       /\ elementPaths["E1"] = UrlABC
  /\ \E i \in GathererVisits :
       /\ Len(log[i].ancestors) = 1
       /\ Nodes[log[i].ancestors[1]].url # UrlABC

\* C6: when one element or behavior object is visited under two different
\* owning paths the construction has failed, with an error naming both paths
C6_DistinctPaths ==
  \A i, j \in GathererVisits :
    (/\ i < j
     /\ log[i].node = log[j].node
     /\ OwningPath(log[i].pos) # NoUrl /\ OwningPath(log[j].pos) # NoUrl
     /\ OwningPath(log[i].pos) # OwningPath(log[j].pos))
    => /\ pc = "failed"
       /\ error.kind = "DistinctPaths"
       /\ error.node = log[i].node
       /\ {error.path1, error.path2} = {OwningPath(log[i].pos), OwningPath(log[j].pos)}

\* B1 is an entity of D1 and of D2, whose urls differ
C6_Witness ==
  /\ pc = "failed"
  /\ error = DistinctPaths("B1", UrlAX, UrlABC)
  /\ \E i, j \in GathererVisits :
       /\ log[i].node = "B1" /\ log[j].node = "B1"
       /\ log[i].ancestors = <<"D1">> /\ log[j].ancestors = <<"D2">>

\* the visits of one kind that found an owning path, in the order made
RECURSIVE FirstSeen(_, _, _)
FirstSeen(method, i, seen) ==
  IF i > Len(log) THEN seen
  ELSE FirstSeen(method, i + 1,
         IF /\ i \in GathererVisits /\ log[i].method = method
            /\ OwningPath(log[i].pos) # NoUrl
            /\ log[i].node \notin Range(seen)
         THEN Append(seen, log[i].node) ELSE seen)

FirstVisit(method, node) ==
  CHOOSE i \in GathererVisits :
    /\ log[i].method = method /\ log[i].node = node
    /\ \A j \in GathererVisits :
         (log[j].method = method /\ log[j].node = node) => i <= j

\* C7: after any sequence of visits the result lists hold each visited object
\* once, in the order of the first visits, with the one owning path of its
\* first visit: visiting an object again changes nothing
C7_RecordedOnce ==
  \A method \in {"visitElement", "visitBehavior"} :
    /\ Recorded(method) = FirstSeen(method, 1, <<>>)
    /\ NoDuplicates(Recorded(method))
    /\ DOMAIN RecordedPaths(method) = Range(Recorded(method))
    /\ \A node \in Range(Recorded(method)) :
         RecordedPaths(method)[node] = OwningPath(log[FirstVisit(method, node)].pos)

\* E1 is twice an entity of D1, and once more of D3 inside D1
C7_Witness ==
  /\ pc = "done"
  /\ Cardinality({i \in GathererVisits : log[i].node = "E1"}) >= 3
  /\ Cardinality({i \in 1..Len(elementDescriptors) : elementDescriptors[i] = "E1"}) = 1
  /\ elementPaths["E1"] = UrlABC

----------------------------------------------------------------------------
(* The order of the callbacks (SpecWalk).                                   *)

\* the callbacks of one node: the visitors that have the method, as registered
RECURSIVE NodeCalls(_, _, _)
NodeCalls(method, node, v) ==
  IF v > Len(Visitors) THEN <<>>
  ELSE (IF VisitorHas(Visitors[v], method) THEN <<<<v, method, node>>>> ELSE <<>>)
       \o NodeCalls(method, node, v + 1)

RECURSIVE DocumentCalls(_), ListCalls(_, _)
DocumentCalls(dd) ==
  NodeCalls("visitDocumentDescriptor", dd, 1)
    \o ListCalls(Nodes[dd].entities, 1) \o ListCalls(Nodes[dd].dependencies, 1)

ListCalls(list, i) ==
  IF i > Len(list) THEN <<>>
  ELSE LET kind == Nodes[list[i]].kind
       IN (CASE kind = "Document" -> DocumentCalls(list[i])
             [] kind = "InlineDocument" ->
                  NodeCalls("visitInlineDocumentDescriptor", list[i], 1)
             [] kind = "Element" -> NodeCalls("visitElement", list[i], 1)
             [] kind = "Behavior" -> NodeCalls("visitBehavior", list[i], 1)
             [] kind = "Import" -> NodeCalls("visitImportDescriptor", list[i], 1)
             [] OTHER -> <<>>)
          \o ListCalls(list, i + 1)

\* depth-first preorder of the forest, then the finalize hooks
PreorderCalls == ListCalls(Descriptors, 1) \o NodeCalls("done", Undefined, 1)

Calls == [i \in 1..Len(log) |-> <<log[i].visitor, log[i].method, log[i].node>>]

\* C10: a walk that completes has issued the callbacks in depth-first preorder,
\* a document before its entities, these before its dependencies, each node to
\* the visitors in registration order, and then each finalize hook once
C10_CallbackOrder == pc = "walked" => Calls = PreorderCalls

\* D1 holds the nested document D3 (with entities of its own) and then an
\* inline document, and has dependencies; both visitors have a finalize hook
C10_Witness ==
  /\ pc = "walked"
  /\ Visitors = <<"Recorder", "Recorder">>
  /\ Nodes["D1"].entities = <<"D3", "N1">>
  /\ Nodes["D3"].entities = <<"B1", "E1">>
  /\ Nodes["D1"].dependencies = <<"M1", "D3">>
  /\ Len(log) >= 2
  /\ Calls[Len(log) - 1] = <<1, "done", Undefined>>
  /\ Calls[Len(log)] = <<2, "done", Undefined>>

----------------------------------------------------------------------------
(* Properties of the indices the constructor builds (Spec).                 *)

IsPrefix(prefix, s) == Len(prefix) <= Len(s) /\ SubSeq(s, 1, Len(prefix)) = prefix

\* the gathered package directories that are a prefix of a path
MatchingDirs(path) == {d \in Range(packageDirs) : IsPrefix(d, path)}

\* the longest of them, the empty string when there is none
LongestMatching(path) ==
  IF MatchingDirs(path) = {} THEN <<>>
  ELSE CHOOSE d \in MatchingDirs(path) : \A o \in MatchingDirs(path) : Len(o) <= Len(d)

Occurrences(bucket, id) == Cardinality({i \in 1..Len(bucket) : bucket[i].id = id})

\* C3: after construction every resolved element is in the bucket of the
\* longest gathered package directory that is a prefix of its owning path
\* (the empty string when none is), exactly once, and in no other bucket
C3_LongestPrefix ==
  pc = "done" =>
    \A id \in Range(elementDescriptors) :
      LET dir == LongestMatching(elementPaths[id])
      IN /\ dir \in DOMAIN elementsByPackageDir
         /\ Occurrences(elementsByPackageDir[dir], id) = 1
         /\ \A other \in DOMAIN elementsByPackageDir \ {dir} :
              Occurrences(elementsByPackageDir[other], id) = 0

\* the package directories /a and /a/b, E1 owned at /a/b/c.html and E2 at
\* /a/x.html: E1 is listed for /a/b and not for /a
C3_Witness ==
  /\ pc = "done"
  /\ Range(packageDirs) = {DirA, DirAB}
  /\ elementPaths["E1"] = UrlABC
  /\ Occurrences(getElementsForPackage(DirAB), "E1") = 1
  /\ Occurrences(getElementsForPackage(DirA), "E1") = 0
  /\ Occurrences(getElementsForPackage(DirA), "E2") = 1

\* the gathered behavior registered under a name: the last one gathered with
\* that className; Undefined when there is none
Registered(name) ==
  LET named == {i \in 1..Len(behaviorDescriptors) :
                  /\ Nodes[behaviorDescriptors[i]].className = name
                  /\ name # Undefined /\ name # ""}
  IN IF named = {} THEN Undefined
     ELSE behaviorDescriptors[CHOOSE i \in named : \A j \in named : j <= i]

EntryTargets(list) ==
  {IF list[i].isName THEN Registered(list[i].v) ELSE list[i].v : i \in 1..Len(list)}
    \ {Undefined}

\* the behaviors reached while flattening a behaviors list
RECURSIVE ReachedClosure(_)
ReachedClosure(S) ==
  LET T == S \cup UNION {EntryTargets(Nodes[b].behaviors) : b \in S}
  IN IF T = S THEN S ELSE ReachedClosure(T)

MissingIn(list) ==
  {list[i].v : i \in {j \in 1..Len(list) :
                        list[j].isName /\ Registered(list[j].v) = Undefined}}

\* the names without a registered behavior in an element's behaviors list or
\* in the list of a behavior reached from it
MissingNames(id) ==
  MissingIn(Nodes[id].behaviors)
    \cup UNION {MissingIn(Nodes[b].behaviors) :
                  b \in ReachedClosure(EntryTargets(Nodes[id].behaviors))}

\* C4: once the elements are gathered, an element whose behaviors list, or the
\* list of a behavior reached from it, names a behavior that is not registered
\* makes the construction fail, with an error that carries such a name
C4_UnresolvedBehavior ==
  /\ pc = "indexElements" =>
       \A k \in 1..ei : MissingNames(elementDescriptors[k]) = {}
  /\ pc = "done" =>
       \A id \in Range(elementDescriptors) : MissingNames(id) = {}
  /\ (pc = "failed" /\ error.kind = "UnresolvedBehavior") =>
       /\ ei < Len(elementDescriptors)
       /\ error.name \in MissingNames(elementDescriptors[ei + 1])

\* E1 names N1; B1, registered as N1, names Foo, which no behavior is called
C4_Witness ==
  /\ pc = "failed"
  /\ error = UnresolvedBehavior("Foo")
  /\ Nodes["E1"].behaviors = <<Name("N1")>>
  /\ Nodes["B1"].behaviors = <<Name("Foo")>>
  /\ Registered("N1") = "B1"
  /\ elementDescriptors[ei + 1] = "E1"

TagNamed(tag) == {i \in 1..Len(elementDescriptors) : Nodes[elementDescriptors[i]].tagName = tag}

GatheredTagNames ==
  {Nodes[elementDescriptors[i]].tagName : i \in 1..Len(elementDescriptors)} \ {Undefined, ""}

\* C8: elements with one tagName do not fail the construction: getElement
\* gives the resolved form of the last of them in gathering order; an element
\* without a tagName is not in the tag index
C8_LastTagNameWins ==
  /\ pc = "done" =>
       /\ DOMAIN elementsByTagName = GatheredTagNames
       /\ \A tag \in GatheredTagNames :
            LET last == CHOOSE i \in TagNamed(tag) : \A j \in TagNamed(tag) : j <= i
            IN /\ getElement(tag).id = elementDescriptors[last]
               /\ getElement(tag) =
                    resolveElement(Nodes, behaviorsByIdentifierName,
                                   elementDescriptors[last]).clone
  /\ pc = "failed" =>
       error.kind \in {"NoPath", "DistinctPaths", "UnknownDescriptor", "UnresolvedBehavior"}
  /\ (pc = "failed" /\ error.kind = "UnresolvedBehavior") =>
       MissingNames(elementDescriptors[ei + 1]) # {}

\* E1 and E2 are both x-a: the index holds E2, gathered after E1
C8_Witness ==
  /\ pc = "done"
  /\ elementDescriptors = <<"E1", "E2">>
  /\ Nodes["E1"].tagName = "x-a" /\ Nodes["E2"].tagName = "x-a"
  /\ getElement("x-a").id = "E2"
  /\ DOMAIN elementsByTagName = {"x-a"}

====
